---- MODULE Spec2Model ----
(***************************************************************************)
(* Model of practice_bidding's BiddingProgram (src/robot_bidding.py): the   *)
(* board state (board number, deal, bidding sequence, opening bids), the    *)
(* program mode, and the operations generate_new_deal, set_opening_bids,    *)
(* bid, is_passed_out, get_contract and the vulnerability/dealer tables.    *)
(*                                                                          *)
(* Python lists are 0-indexed; sequences here are 1-indexed, so At(s, i)    *)
(* reads the element the code calls s[i].  Strings the code builds or       *)
(* converts (bid values, contracts) are sequences of one-character strings. *)
(***************************************************************************)
EXTENDS Integers, Sequences, FiniteSets, TLC

VARIABLES board_number, deal, bidding_sequence, opening_bids, mode,
          op, ret, legal, arg

vars == <<board_number, deal, bidding_sequence, opening_bids, mode,
          op, ret, legal, arg>>

(* ------------------------------ bounds --------------------------------- *)

\* Highest board number the model deals (board numbers are unbounded ints).
MaxBoard == 4
\* Highest hand strength a deal generator hands out (hands are 0..MaxHand).
MaxHand == 2
\* Longest bidding sequence handed to is_passed_out / get_contract directly.
MaxSeqLen == 8
\* Longest run of user inputs one bid() consumes.
MaxInputs == 2
\* Highest board number the vulnerability / dealer tables are read at.
MaxTableBoard == 40
\* Highest shift _bidder is read at.
MaxShift == 8
\* Longest contract string handed to get_double_dummy_result.
MaxContractLen == 4
\* Most lines the user types into one get_validated_input, and the highest
\* tries it is called with.
MaxLines == 3
MaxTries == 2

(* --------------------------- enumerations ------------------------------ *)

Players == {"North", "East", "South", "West"}

Vulnerability == {"None_", "Favourable", "All", "Unfavourable"}

ProgramMode == {"Default", "Automatic"}

\* Python's None where a function falls off its end without a return.
NoValue == "NoValue"

_dealer_map(r) ==
    CASE r = 1 -> "North"
      [] r = 2 -> "East"
      [] r = 3 -> "South"
      [] r = 0 -> "West"

(* ------------------------------ the bids -------------------------------- *)

\* BiddingProgram._pass = Bid("P", "Pass", []); calls compare by identity.
_pass == "P"

\* The bids of the bid tree, each named by its (lower-case) key.
BidNodes == {"1h", "1s", "2h", "2s", "4h"}

Calls == BidNodes \cup {_pass}

\* Bid.value: the display value (the tree's author may write either case).
ValueOf(b) ==
    CASE b = "1h" -> <<"1", "h">>
      [] b = "1s" -> <<"1", "S">>
      [] b = "2h" -> <<"2", "H">>
      [] b = "2s" -> <<"2", "s">>
      [] b = "4h" -> <<"4", "h">>
      [] b = _pass -> <<"P">>

\* Bid.suit: the denomination of a non-pass bid.
SuitOf(b) ==
    CASE b \in {"1h", "2h", "4h"} -> "hearts"
      [] b \in {"1s", "2s"} -> "spades"

\* Bid.children: the follow-up bids, keyed by their own keys.
ChildrenOf(b) ==
    CASE b = "1h" -> {"2h", "2s"}
      [] b = "2h" -> {"4h"}
      [] OTHER -> {}

\* The opening bids a session is given through set_opening_bids.
TreeRoot == {"1h", "1s"}

\* Bid.accept(hand): the bid's conditions hold of the hand.  A hand is
\* summarised by its strength 0..MaxHand.
Accept(b, hand) ==
    CASE b = "1h" -> hand >= 1
      [] b = "1s" -> hand >= 2
      [] b = "2h" -> hand >= 1
      [] b = "2s" -> hand >= 1
      [] b = "4h" -> hand >= 2

Hands == 0..MaxHand

\* A deal: one hand per seat.  bid() never reads East's or West's hand, so
\* the deals the generator is taken to produce vary North's and South's.
Deals == {d \in [Players -> Hands] : d["East"] = 0 /\ d["West"] = 0}

(* ------------------------------ strings --------------------------------- *)

UpperChar(c) ==
    CASE c = "h" -> "H"
      [] c = "s" -> "S"
      [] c = "p" -> "P"
      [] OTHER -> c

\* str.upper()
Upper(s) == [i \in DOMAIN s |-> UpperChar(s[i])]

(* --------------------------- pure functions ----------------------------- *)

\* s[i] with Python's 0-based index.
At(s, i) == s[i + 1]

vulnerability_mut(bn) ==
    LET board == bn % 16 IN
    IF board \in {1, 8, 11, 14} THEN "None_"
    ELSE IF board \in {2, 5, 12, 15} THEN "Unfavourable"
    ELSE IF board \in {3, 6, 9} THEN "Favourable"
    ELSE IF board \in {4, 7, 10, 13} THEN "All"
    ELSE NoValue

vulnerability(bn) ==
    LET board == bn % 16 IN
    IF board \in {1, 8, 11, 14} THEN "None_"
    ELSE IF board \in {2, 5, 12, 15} THEN "Unfavourable"
    ELSE IF board \in {3, 6, 9, 0} THEN "Favourable"
    ELSE IF board \in {4, 7, 10, 13} THEN "All"
    ELSE NoValue

_dealer(bn) == _dealer_map(bn % 4)

\* A variant that takes the board number "reduced by 1", as the comment
\* above _bidder starts to say.
_bidder_mut(bn, shift) == _dealer_map((bn - 1 + shift) % 4)

\* _bidder(shift) on board bn; shift = None is len(bidding_sequence).
_bidder(bn, shift) == _dealer_map((bn + shift) % 4)

is_passed_out_mut(s) ==
    IF Len(s) < 3 THEN FALSE
    ELSE \A i \in (Len(s) - 3)..(Len(s) - 1) : At(s, i) = _pass

is_passed_out(s) ==
    IF Len(s) < 4 THEN FALSE
    ELSE \A i \in (Len(s) - 3)..(Len(s) - 1) : At(s, i) = _pass

player_map(p) ==
    CASE p = "North" -> "N"
      [] p = "East" -> "E"
      [] p = "South" -> "S"
      [] p = "West" -> "W"

\* The loop of get_contract: for i in range(index - 2, -1, -4), stopping at
\* the first Pass or the first bid of the contract's suit.
RECURSIVE suit_bid_by_partner(_, _, _)
suit_bid_by_partner(s, i, suit) ==
    IF i < 0 THEN FALSE
    ELSE IF At(s, i) = _pass THEN FALSE
    ELSE IF SuitOf(At(s, i)) = suit THEN TRUE
    ELSE suit_bid_by_partner(s, i - 4, suit)

\* What an operation hands back: the error raised, the string, boolean or
\* call returned, and, for the claims about what an operation touched, a
\* count (num) and the list positions it read (reads).
NoRet == [err |-> "none", str |-> <<>>, flag |-> FALSE, call |-> "none",
          num |-> 0, reads |-> {}]

get_contract_nosentinel(s, bn) ==
    IF ~is_passed_out(s) THEN [NoRet EXCEPT !.err = "AssertionError"]
    ELSE
      LET last_bid == At(s, Len(s) - 4)
          index == Len(s) - 4
          byPartner == last_bid # _pass /\ suit_bid_by_partner(s, index - 2, SuitOf(last_bid))
          bidder == _bidder(bn, IF byPartner THEN index - 2 ELSE index)
      IN [NoRet EXCEPT !.str = Upper(ValueOf(last_bid)) \o <<player_map(bidder)>>]

get_contract_noassert(s, bn) ==
    IF Len(s) < 4 THEN [NoRet EXCEPT !.err = "IndexError"]
    ELSE
      LET last_bid == At(s, Len(s) - 4) IN
      IF last_bid = _pass THEN [NoRet EXCEPT !.str = <<"P">>]
      ELSE
        LET index == Len(s) - 4
            suit == SuitOf(last_bid)
            bidder == _bidder(bn, IF suit_bid_by_partner(s, index - 2, suit)
                                  THEN index - 2 ELSE index)
        IN [NoRet EXCEPT !.str = Upper(ValueOf(last_bid)) \o <<player_map(bidder)>>]

get_contract_lastbidder(s, bn) ==
    IF ~is_passed_out(s) THEN [NoRet EXCEPT !.err = "AssertionError"]
    ELSE
      LET last_bid == At(s, Len(s) - 4) IN
      IF last_bid = _pass THEN [NoRet EXCEPT !.str = <<"P">>]
      ELSE
        LET index == Len(s) - 4
            bidder == _bidder(bn, index)
        IN [NoRet EXCEPT !.str = Upper(ValueOf(last_bid)) \o <<player_map(bidder)>>]

\* The positions the loop of get_contract reads, in the same order of tests.
RECURSIVE scan_reads(_, _, _)
scan_reads(s, i, suit) ==
    IF i < 0 THEN {}
    ELSE IF At(s, i) = _pass THEN {i}
    ELSE IF SuitOf(At(s, i)) = suit THEN {i}
    ELSE {i} \cup scan_reads(s, i - 4, suit)

\* A variant whose scan starts at index - 2 even when that is negative (a
\* negative index reads from the end of the list, where the Passes are).
get_contract_negscan(s, bn) ==
    IF ~is_passed_out(s) THEN [NoRet EXCEPT !.err = "AssertionError"]
    ELSE
      LET last_bid == At(s, Len(s) - 4) IN
      IF last_bid = _pass THEN [NoRet EXCEPT !.str = <<"P">>]
      ELSE
        LET index == Len(s) - 4
            suit == SuitOf(last_bid)
            shift == IF suit_bid_by_partner(s, index - 2, suit)
                     THEN index - 2 ELSE index
        IN [NoRet EXCEPT !.str = Upper(ValueOf(last_bid))
                                   \o <<player_map(_bidder(bn, shift))>>,
                         !.num = shift,
                         !.reads = IF index - 2 < 0 THEN {index - 2}
                                   ELSE scan_reads(s, index - 2, suit)]

\* A variant that takes the partner to sit one place, not two, before the
\* final bidder.
get_contract_offbyone(s, bn) ==
    IF ~is_passed_out(s) THEN [NoRet EXCEPT !.err = "AssertionError"]
    ELSE
      LET last_bid == At(s, Len(s) - 4) IN
      IF last_bid = _pass THEN [NoRet EXCEPT !.str = <<"P">>]
      ELSE
        LET index == Len(s) - 4
            suit == SuitOf(last_bid)
            shift == IF suit_bid_by_partner(s, index - 2, suit)
                     THEN index - 1 ELSE index
        IN [NoRet EXCEPT !.str = Upper(ValueOf(last_bid))
                                   \o <<player_map(_bidder(bn, shift))>>,
                         !.num = shift,
                         !.reads = scan_reads(s, index - 2, suit)]

\* get_contract(bidding_sequence) on board bn: the contract string, or the
\* AssertionError of a sequence that is not passed out.  num is the shift
\* handed to _bidder, reads the positions the scan read.
get_contract(s, bn) ==
    IF ~is_passed_out(s) THEN [NoRet EXCEPT !.err = "AssertionError"]
    ELSE
      LET last_bid == At(s, Len(s) - 4) IN
      IF last_bid = _pass THEN [NoRet EXCEPT !.str = <<"P">>]
      ELSE
        LET index == Len(s) - 4
            suit == SuitOf(last_bid)
            shift == IF suit_bid_by_partner(s, index - 2, suit)
                     THEN index - 2 ELSE index
        IN [NoRet EXCEPT !.str = Upper(ValueOf(last_bid))
                                   \o <<player_map(_bidder(bn, shift))>>,
                         !.num = shift,
                         !.reads = scan_reads(s, index - 2, suit)]

(* --------------------------- legal bids --------------------------------- *)

\* The mapping _user_bid offers the user (lines 236-241).
user_potential_bids_mut(s, root) ==
    IF Len(s) >= 2 /\ At(s, Len(s) - 1) # _pass
    THEN ChildrenOf(At(s, Len(s) - 1))
    ELSE root

user_potential_bids(s, root) ==
    IF Len(s) >= 2 /\ At(s, Len(s) - 2) # _pass
    THEN ChildrenOf(At(s, Len(s) - 2))
    ELSE root

\* The mapping _program_bid filters (lines 209-220): potential_bids stays
\* None, and the root is used, only when partner's call is absent or Pass.
program_potential_bids_mut(s, root) ==
    IF Len(s) >= 2 /\ At(s, Len(s) - 2) # _pass
       /\ ChildrenOf(At(s, Len(s) - 2)) # {}
    THEN ChildrenOf(At(s, Len(s) - 2))
    ELSE root

program_potential_bids(s, root) ==
    IF Len(s) >= 2 /\ At(s, Len(s) - 2) # _pass
    THEN ChildrenOf(At(s, Len(s) - 2))
    ELSE root

_program_bid_mut(s, root, hand) ==
    LET potential_bids == program_potential_bids(s, root)
    IN IF potential_bids = {} THEN {_pass} ELSE potential_bids

\* _program_bid(current_hand): the calls random.choice can return; Pass when
\* the filtered list is empty (IndexError).
_program_bid(s, root, hand) ==
    LET potential_bids == {b \in program_potential_bids(s, root) : Accept(b, hand)}
    IN IF potential_bids = {} THEN {_pass} ELSE potential_bids

\* get_hand(seat)
get_hand(d, seat) == d[seat]

(* ----------------------------- user input ------------------------------- *)

LowerChar(c) ==
    CASE c = "H" -> "h"
      [] c = "S" -> "s"
      [] c = "P" -> "p"
      [] c = "A" -> "a"
      [] OTHER -> c

\* str.lower()
Lower(s) == [i \in DOMAIN s |-> LowerChar(s[i])]

UpperWord(s) == [i \in DOMAIN s |-> IF s[i] = "a" THEN "A" ELSE UpperChar(s[i])]

\* The key a bid is filed under in root / children mappings.
KeyOf(b) == Lower(ValueOf(b))

\* What the user can type at "Your bid: " that parses as a bridge bid.
BidTexts == {<<"p">>, <<"P", "a", "s", "s">>, <<"1", "H">>, <<"2", "h">>,
             <<"4", "H">>, <<"2", "s">>, <<"7", "n">>}

\* One line of user input, by what parse makes of it: a help request, a
\* quit, a visit to the settings editor that flips the mode, any other
\* result outside the accepted formats, or a bridge bid.
UserInputs ==
    {[kind |-> k, text |-> <<>>] : k \in {"help", "other", "settings_mode", "quit"}}
    \cup {[kind |-> "bid", text |-> t] : t \in BidTexts}

InputSeqs == UNION {[1..k -> UserInputs] : k \in 0..MaxInputs}

Toggle(m) == IF m = "Automatic" THEN "Default" ELSE "Automatic"

NotConsulted == {"none"}

\* _user_bid: the while loop of lines 244-266 run over the lines the user
\* types.  atPrompt is FALSE at the top of the while loop (the mode test) and
\* TRUE inside get_validated_input.  The result: how the call ended
\* ("ok", "quit", or "blocked" when the input ran out at the prompt), the
\* calls it can return, the mode it leaves, the input left unread, and
\* whether _program_bid was called.
RECURSIVE _user_bid(_, _, _, _, _, _)
_user_bid(s, root, hand, inputs, m, atPrompt) ==
    LET potential_bids == user_potential_bids(s, root) IN
    IF ~atPrompt /\ m = "Automatic"
    THEN [status |-> "ok", calls |-> _program_bid(s, root, hand), mode |-> m,
          rest |-> inputs, auto |-> TRUE]
    ELSE IF inputs = <<>>
    THEN [status |-> "blocked", calls |-> {}, mode |-> m, rest |-> inputs,
          auto |-> FALSE]
    ELSE
      LET x == Head(inputs)
          rest == Tail(inputs)
      IN
      IF x.kind = "quit"
      THEN [status |-> "quit", calls |-> {}, mode |-> m, rest |-> rest,
            auto |-> FALSE]
      ELSE IF x.kind \in {"help", "other"}
      THEN _user_bid(s, root, hand, rest, m, TRUE)
      ELSE IF x.kind = "settings_mode"
      THEN _user_bid(s, root, hand, rest, Toggle(m), TRUE)
      ELSE IF UpperWord(x.text) \in {ValueOf(_pass), <<"P", "A", "S", "S">>}
      THEN [status |-> "ok", calls |-> {_pass}, mode |-> m, rest |-> rest,
            auto |-> FALSE]
      ELSE IF \E b \in potential_bids : KeyOf(b) = Lower(x.text)
      THEN [status |-> "ok",
            calls |-> {b \in potential_bids : KeyOf(b) = Lower(x.text)},
            mode |-> m, rest |-> rest, auto |-> FALSE]
      ELSE _user_bid(s, root, hand, rest, m, FALSE)

(* ------------------------------- state ---------------------------------- *)

\* The arguments of a call: a sequence (none when the parameter is left at
\* None) and a number (a shift, a number of tries).
NoneArg == [none |-> TRUE, seq |-> <<>>, n |-> 0]

NoLegal == [user |-> NotConsulted, program |-> NotConsulted]

\* __init__: board number 0, then generate_new_deal; no opening bids yet.
Init ==
    /\ board_number = 1
    /\ deal \in Deals
    /\ bidding_sequence = <<>>
    /\ opening_bids = {}
    /\ mode = "Default"
    /\ op = "init"
    /\ ret = NoRet
    /\ legal = NoLegal
    /\ arg = NoneArg

(* ------------------------------ operations ------------------------------ *)

set_opening_bids ==
    /\ \E opening \in {{}, TreeRoot} : opening_bids' = opening
    /\ op' = "set_opening_bids"
    /\ ret' = NoRet
    /\ legal' = NoLegal
    /\ UNCHANGED <<board_number, deal, bidding_sequence, mode, arg>>

\* A variant that bumps the board number before asking the generator.
generate_new_deal_mut ==
    /\ board_number < MaxBoard
    /\ op' = "generate_new_deal"
    /\ legal' = NoLegal
    /\ \/ /\ \E d \in Deals : deal' = d
          /\ bidding_sequence' = <<>>
          /\ board_number' = board_number + 1
          /\ ret' = NoRet
       \/ /\ ret' = [NoRet EXCEPT !.err = "GeneratorError"]
          /\ board_number' = board_number + 1
          /\ UNCHANGED <<deal, bidding_sequence>>
    /\ UNCHANGED <<opening_bids, mode, arg>>

\* generate_new_deal: the generator is called first (line 79); when it
\* raises, none of the three assignments has happened.
generate_new_deal ==
    /\ board_number < MaxBoard
    /\ op' = "generate_new_deal"
    /\ legal' = NoLegal
    /\ \/ /\ \E d \in Deals : deal' = d
          /\ bidding_sequence' = <<>>
          /\ board_number' = board_number + 1
          /\ ret' = NoRet
       \/ /\ ret' = [NoRet EXCEPT !.err = "GeneratorError"]
          /\ UNCHANGED <<board_number, deal, bidding_sequence>>
    /\ UNCHANGED <<opening_bids, mode, arg>>

\* edit_settings called by the host, the user flipping the mode.
edit_settings ==
    /\ mode' = Toggle(mode)
    /\ op' = "edit_settings"
    /\ ret' = NoRet
    /\ legal' = NoLegal
    /\ UNCHANGED <<board_number, deal, bidding_sequence, opening_bids, arg>>

\* bid() with no opening bids: assert self._root fails.
BidNoRoot ==
    /\ opening_bids = {}
    /\ op' = "bid"
    /\ ret' = [NoRet EXCEPT !.err = "AssertionError"]
    /\ legal' = NoLegal
    /\ UNCHANGED <<board_number, deal, bidding_sequence, opening_bids, mode, arg>>

\* A variant without the early return: the opponents' Pass is appended.
BidPassedOut_mut ==
    /\ opening_bids # {}
    /\ is_passed_out(bidding_sequence)
    /\ _bidder(board_number, Len(bidding_sequence)) \in {"East", "West"}
    /\ bidding_sequence' = Append(bidding_sequence, _pass)
    /\ op' = "bid"
    /\ ret' = [NoRet EXCEPT !.call = _pass]
    /\ legal' = NoLegal
    /\ UNCHANGED <<board_number, deal, opening_bids, mode, arg>>

\* bid() on a passed-out auction: returns at line 190.
BidPassedOut ==
    /\ opening_bids # {}
    /\ is_passed_out(bidding_sequence)
    /\ op' = "bid"
    /\ ret' = NoRet
    /\ legal' = NoLegal
    /\ UNCHANGED <<board_number, deal, bidding_sequence, opening_bids, mode, arg>>

\* A variant in which East and West bid from their hands like North.
BidOpponent_mut ==
    /\ opening_bids # {}
    /\ ~is_passed_out(bidding_sequence)
    /\ LET current_bidder == _bidder(board_number, Len(bidding_sequence)) IN
         /\ current_bidder \in {"East", "West"}
         /\ \E b \in _program_bid(bidding_sequence, opening_bids,
                                  get_hand(deal, "North")) :
              /\ bidding_sequence' = Append(bidding_sequence, b)
              /\ ret' = [NoRet EXCEPT !.call = b]
    /\ op' = "bid"
    /\ legal' = NoLegal
    /\ UNCHANGED <<board_number, deal, opening_bids, mode, arg>>

\* bid() with East or West on turn: the call is Pass.
BidOpponent ==
    /\ opening_bids # {}
    /\ ~is_passed_out(bidding_sequence)
    /\ _bidder(board_number, Len(bidding_sequence)) \in {"East", "West"}
    /\ bidding_sequence' = Append(bidding_sequence, _pass)
    /\ op' = "bid"
    /\ ret' = [NoRet EXCEPT !.call = _pass]
    /\ legal' = NoLegal
    /\ UNCHANGED <<board_number, deal, opening_bids, mode, arg>>

\* A variant that catches the quit and records a Pass for the user.
BidUser_mut ==
    /\ opening_bids # {}
    /\ ~is_passed_out(bidding_sequence)
    /\ _bidder(board_number, Len(bidding_sequence)) = "South"
    /\ mode = "Default"
    /\ \E inputs \in InputSeqs :
         LET r == _user_bid(bidding_sequence, opening_bids,
                            get_hand(deal, "South"), inputs, mode, FALSE)
             used == [user |-> user_potential_bids(bidding_sequence, opening_bids),
                      program |-> IF r.auto
                                  THEN program_potential_bids(bidding_sequence, opening_bids)
                                  ELSE NotConsulted]
         IN /\ r.rest = <<>>
            /\ \/ /\ r.status = "ok"
                  /\ \E b \in r.calls :
                       /\ bidding_sequence' = Append(bidding_sequence, b)
                       /\ ret' = [NoRet EXCEPT !.call = b]
               \/ /\ r.status = "quit"
                  /\ ret' = [NoRet EXCEPT !.err = "Quit"]
                  /\ bidding_sequence' = Append(bidding_sequence, _pass)
            /\ mode' = r.mode
            /\ legal' = used
    /\ op' = "bid"
    /\ UNCHANGED <<board_number, deal, opening_bids, arg>>

\* bid() with South on turn in Default mode: _user_bid.
BidUser ==
    /\ opening_bids # {}
    /\ ~is_passed_out(bidding_sequence)
    /\ _bidder(board_number, Len(bidding_sequence)) = "South"
    /\ mode = "Default"
    /\ \E inputs \in InputSeqs :
         LET r == _user_bid(bidding_sequence, opening_bids,
                            get_hand(deal, "South"), inputs, mode, FALSE)
             used == [user |-> user_potential_bids(bidding_sequence, opening_bids),
                      program |-> IF r.auto
                                  THEN program_potential_bids(bidding_sequence, opening_bids)
                                  ELSE NotConsulted]
         IN /\ r.rest = <<>>
            /\ \/ /\ r.status = "ok"
                  /\ \E b \in r.calls :
                       /\ bidding_sequence' = Append(bidding_sequence, b)
                       /\ ret' = [NoRet EXCEPT !.call = b]
               \/ /\ r.status = "quit"
                  /\ ret' = [NoRet EXCEPT !.err = "Quit"]
                  /\ UNCHANGED bidding_sequence
            /\ mode' = r.mode
            /\ legal' = used
    /\ op' = "bid"
    /\ UNCHANGED <<board_number, deal, opening_bids, arg>>

\* A variant that assigns the sequence instead of appending to it.
BidProgram_mut ==
    /\ opening_bids # {}
    /\ ~is_passed_out(bidding_sequence)
    /\ LET current_bidder == _bidder(board_number, Len(bidding_sequence)) IN
         /\ current_bidder \notin {"East", "West"}
         /\ ~(current_bidder = "South" /\ mode = "Default")
         /\ \E b \in _program_bid(bidding_sequence, opening_bids,
                                  get_hand(deal, current_bidder)) :
              /\ bidding_sequence' = <<b>>
              /\ ret' = [NoRet EXCEPT !.call = b]
    /\ legal' = [user |-> NotConsulted,
                 program |-> program_potential_bids(bidding_sequence, opening_bids)]
    /\ op' = "bid"
    /\ UNCHANGED <<board_number, deal, opening_bids, mode, arg>>

\* bid() otherwise (North, or South in Automatic mode): _program_bid.
BidProgram ==
    /\ opening_bids # {}
    /\ ~is_passed_out(bidding_sequence)
    /\ LET current_bidder == _bidder(board_number, Len(bidding_sequence)) IN
         /\ current_bidder \notin {"East", "West"}
         /\ ~(current_bidder = "South" /\ mode = "Default")
         /\ \E b \in _program_bid(bidding_sequence, opening_bids,
                                  get_hand(deal, current_bidder)) :
              /\ bidding_sequence' = Append(bidding_sequence, b)
              /\ ret' = [NoRet EXCEPT !.call = b]
    /\ legal' = [user |-> NotConsulted,
                 program |-> program_potential_bids(bidding_sequence, opening_bids)]
    /\ op' = "bid"
    /\ UNCHANGED <<board_number, deal, opening_bids, mode, arg>>

bid == BidNoRoot \/ BidPassedOut \/ BidOpponent \/ BidUser \/ BidProgram

\* The sequence is_passed_out / get_contract work on: the argument, or
\* self.bidding_sequence when get_contract is given None.
CallSeq == IF arg.none THEN bidding_sequence ELSE arg.seq

IsPassedOutCall ==
    /\ op' = "is_passed_out"
    /\ ret' = [NoRet EXCEPT !.flag = is_passed_out(CallSeq)]
    /\ legal' = NoLegal
    /\ UNCHANGED <<board_number, deal, bidding_sequence, opening_bids, mode, arg>>

GetContractCall ==
    /\ op' = "get_contract"
    /\ ret' = get_contract(CallSeq, board_number)
    /\ legal' = NoLegal
    /\ UNCHANGED <<board_number, deal, bidding_sequence, opening_bids, mode, arg>>

Next ==
    \/ set_opening_bids
    \/ generate_new_deal
    \/ edit_settings
    \/ bid
    \/ IsPassedOutCall
    \/ GetContractCall

Spec == Init /\ [][Next]_vars

(* --------------------- one board, bid() called repeatedly ---------------- *)

\* A session with its opening bids set, at the start of some board, in
\* either mode.
AuctionInit ==
    /\ board_number \in 1..MaxBoard
    /\ deal \in Deals
    /\ bidding_sequence = <<>>
    /\ opening_bids = TreeRoot
    /\ mode \in ProgramMode
    /\ op = "init"
    /\ ret = NoRet
    /\ legal = NoLegal
    /\ arg = NoneArg

\* A bid() whose user input request returns (the user does not quit).
BidUserReturns == BidUser /\ ret'.err = "none"

AuctionNext == BidPassedOut \/ BidOpponent \/ BidUser \/ BidProgram

\* The host keeps calling bid(), and every input request returns.
SpecAuction ==
    /\ AuctionInit
    /\ [][AuctionNext]_vars
    /\ WF_vars(BidOpponent)
    /\ WF_vars(BidProgram)
    /\ WF_vars(BidUserReturns)

(* ------------- is_passed_out / get_contract on any sequence -------------- *)

\* The calls the sequences handed in directly are made of.
ArgCalls == {_pass, "1h", "1s", "4h"}

ArgSeqs == UNION {[1..k -> ArgCalls] : k \in 0..MaxSeqLen}

\* A session on some board, about to be asked about a sequence of the
\* caller's choosing.
SeqInit ==
    /\ board_number \in 1..MaxBoard
    /\ deal = [p \in Players |-> 0]
    /\ bidding_sequence = <<>>
    /\ opening_bids = {}
    /\ mode = "Default"
    /\ op = "init"
    /\ ret = NoRet
    /\ legal = NoLegal
    /\ arg \in {[none |-> FALSE, seq |-> s, n |-> 0] : s \in ArgSeqs}

SeqIsPassedOut == op = "init" /\ IsPassedOutCall

SeqGetContract == op = "init" /\ GetContractCall

SeqNext == SeqIsPassedOut \/ SeqGetContract

SpecSeq == SeqInit /\ [][SeqNext]_vars

(* ------------------ the tables read at any board number ----------------- *)

TableInit ==
    /\ board_number \in 1..MaxTableBoard
    /\ deal = [p \in Players |-> 0]
    /\ bidding_sequence = <<>>
    /\ opening_bids = {}
    /\ mode = "Default"
    /\ op = "init"
    /\ ret = NoRet
    /\ legal = NoLegal
    /\ arg \in {[none |-> TRUE, seq |-> <<>>, n |-> k] : k \in 0..MaxShift}

\* The vulnerability property read.
VulnerabilityCall ==
    /\ op' = "vulnerability"
    /\ ret' = [NoRet EXCEPT !.str = <<vulnerability(board_number)>>]
    /\ UNCHANGED <<board_number, deal, bidding_sequence, opening_bids, mode,
                   legal, arg>>

\* The _dealer property read.
DealerCall ==
    /\ op' = "_dealer"
    /\ ret' = [NoRet EXCEPT !.str = <<_dealer(board_number)>>]
    /\ UNCHANGED <<board_number, deal, bidding_sequence, opening_bids, mode,
                   legal, arg>>

\* _bidder(shift) with the shift given.
BidderCall ==
    /\ op' = "_bidder"
    /\ ret' = [NoRet EXCEPT !.str = <<_bidder(board_number, arg.n)>>]
    /\ UNCHANGED <<board_number, deal, bidding_sequence, opening_bids, mode,
                   legal, arg>>

TableNext == VulnerabilityCall \/ DealerCall \/ BidderCall

SpecTable == TableInit /\ [][TableNext]_vars

(* ----------------------- get_double_dummy_result ------------------------- *)

\* The characters contract strings are made of here.
ContractChars == {"0", "1", "3", "7", "8", "N", "S", "H", "X", "P"}

ContractStrings == UNION {[1..k -> ContractChars] : k \in 0..MaxContractLen}

\* int(c) of one character: its value, or -1 for the ValueError int raises
\* on a character that is no digit.
IntOf(c) ==
    CASE c = "0" -> 0
      [] c = "1" -> 1
      [] c = "3" -> 3
      [] c = "7" -> 7
      [] c = "8" -> 8
      [] OTHER -> -1

\* A variant whose level test is range(1, 9).
get_double_dummy_result_mut(contract, bn) ==
    IF Len(contract) # 3 THEN [NoRet EXCEPT !.err = "ValueError"]
    ELSE IF IntOf(contract[1]) = -1 THEN [NoRet EXCEPT !.err = "ValueError"]
    ELSE IF IntOf(contract[1]) \notin 1..8 THEN [NoRet EXCEPT !.err = "ValueError"]
    ELSE IF contract[2] \notin {"C", "D", "H", "S", "N"}
    THEN [NoRet EXCEPT !.err = "ValueError"]
    ELSE IF contract[3] \notin {"N", "E", "S", "W"}
    THEN [NoRet EXCEPT !.err = "ValueError"]
    ELSE [NoRet EXCEPT !.str = contract, !.num = 2,
                       !.flag = IF contract[3] \in {"N", "S"}
                                THEN vulnerability(bn) \in {"All", "Unfavourable"}
                                ELSE vulnerability(bn) \in {"All", "Favourable"}]

\* get_double_dummy_result(contract) on board bn.  The four asserts turn
\* into ValueError (lines 349-355); int() of a non-digit raises ValueError
\* itself.  Past them the oracle is called twice, dd_tricks(contract) and
\* dd_score(contract, vulnerability): str is the contract handed over, flag
\* the vulnerability handed over, num the number of oracle calls.
get_double_dummy_result(contract, bn) ==
    IF Len(contract) # 3 THEN [NoRet EXCEPT !.err = "ValueError"]
    ELSE IF IntOf(contract[1]) = -1 THEN [NoRet EXCEPT !.err = "ValueError"]
    ELSE IF IntOf(contract[1]) \notin 1..7 THEN [NoRet EXCEPT !.err = "ValueError"]
    ELSE IF contract[2] \notin {"C", "D", "H", "S", "N"}
    THEN [NoRet EXCEPT !.err = "ValueError"]
    ELSE IF contract[3] \notin {"N", "E", "S", "W"}
    THEN [NoRet EXCEPT !.err = "ValueError"]
    ELSE [NoRet EXCEPT !.str = contract, !.num = 2,
                       !.flag = IF contract[3] \in {"N", "S"}
                                THEN vulnerability(bn) \in {"All", "Unfavourable"}
                                ELSE vulnerability(bn) \in {"All", "Favourable"}]

\* A session on some board, about to be asked for a double-dummy result.
DDInit ==
    /\ board_number \in 1..MaxBoard
    /\ deal = [p \in Players |-> 0]
    /\ bidding_sequence = <<>>
    /\ opening_bids = {}
    /\ mode = "Default"
    /\ op = "init"
    /\ ret = NoRet
    /\ legal = NoLegal
    /\ arg \in {[none |-> FALSE, seq |-> s, n |-> 0] : s \in ContractStrings}

GetDoubleDummyResultCall ==
    /\ op = "init"
    /\ op' = "get_double_dummy_result"
    /\ ret' = get_double_dummy_result(arg.seq, board_number)
    /\ UNCHANGED <<board_number, deal, bidding_sequence, opening_bids, mode,
                   legal, arg>>

DDNext == GetDoubleDummyResultCall

SpecDD == DDInit /\ [][DDNext]_vars

(* ------------------------- get_validated_input --------------------------- *)

\* Lines the user can type at a prompt that accepts bridge bids.
Lines == {"help", "1h", "2h", "xx"}

\* parse(input_): the ParseResults member a line is parsed to.
ParseOf(line) ==
    CASE line = "help" -> "Help"
      [] line \in {"1h", "2h"} -> "BridgeBid"
      [] OTHER -> "Unknown"

LineSeqs == UNION {[1..k -> Lines] : k \in 0..MaxLines}

\* get_validated_input(message, valid_formats, tries=tries) fed with the
\* lines the user types; i is the loop counter of itertools.count(1).  The
\* result: flag when an input is returned (str), err for the ValueError, and
\* num the number of input() calls made, the one still waiting for a line
\* (the lines having run out) included.
RECURSIVE get_validated_input(_, _, _, _)
get_validated_input(lines, valid_formats, tries, i) ==
    IF Len(lines) < i THEN [NoRet EXCEPT !.num = i]
    ELSE
      LET input_ == lines[i]
          result == ParseOf(input_)
      IN IF result = "Help"
         THEN get_validated_input(lines, valid_formats, tries, i + 1)
         ELSE IF result \in valid_formats
         THEN [NoRet EXCEPT !.flag = TRUE, !.str = <<input_>>, !.num = i]
         ELSE IF i = tries
         THEN [NoRet EXCEPT !.err = "ValueError", !.str = <<input_>>, !.num = i]
         ELSE get_validated_input(lines, valid_formats, tries, i + 1)

\* A session about to ask the user for a bridge bid, with a number of tries.
InputInit ==
    /\ board_number = 1
    /\ deal = [p \in Players |-> 0]
    /\ bidding_sequence = <<>>
    /\ opening_bids = {}
    /\ mode = "Default"
    /\ op = "init"
    /\ ret = NoRet
    /\ legal = NoLegal
    /\ arg \in {[none |-> FALSE, seq |-> s, n |-> k] :
                   s \in LineSeqs, k \in 1..MaxTries}

GetValidatedInputCall ==
    /\ op = "init"
    /\ op' = "get_validated_input"
    /\ ret' = get_validated_input(arg.seq, {"BridgeBid"}, arg.n, 1)
    /\ UNCHANGED <<board_number, deal, bidding_sequence, opening_bids, mode,
                   legal, arg>>

InputNext == GetValidatedInputCall

SpecInput == InputInit /\ [][InputNext]_vars

(* ------------------------------ properties ------------------------------ *)

\* The call at 0-based position i of s is Pass.
IsPassAt(s, i) == s[i + 1] = _pass

\* Pass-out terminal, in the specification's words: at least four calls,
\* the last three of them Pass.
PassOutTerminal(s) ==
    /\ Len(s) >= 4
    /\ IsPassAt(s, Len(s) - 1)
    /\ IsPassAt(s, Len(s) - 2)
    /\ IsPassAt(s, Len(s) - 3)

\* C1: is_passed_out returns true exactly for the sequences of at least four
\* calls whose last three calls are Pass; three Passes alone are not
\* terminal, four are.
C1_PassedOutIff ==
    op = "is_passed_out" =>
        /\ ret.flag = PassOutTerminal(CallSeq)
        /\ (CallSeq = <<_pass, _pass, _pass>> => ret.flag = FALSE)
        /\ (CallSeq = <<_pass, _pass, _pass, _pass>> => ret.flag = TRUE)

C1_Witness ==
    /\ op = "is_passed_out"
    /\ arg.seq = <<_pass, _pass, _pass>>
    /\ ret.flag = FALSE

\* C2: once the auction is passed out, a bid() with opening bids set makes
\* no call and leaves the sequence as it was, and the sequence changes only
\* by generate_new_deal emptying it.
C2_PassOutAbsorbing ==
    [][ PassOutTerminal(bidding_sequence) =>
          /\ (op' = "bid" /\ opening_bids # {} =>
                /\ ret'.call = "none"
                /\ ret'.err = "none"
                /\ bidding_sequence' = bidding_sequence)
          /\ (bidding_sequence' # bidding_sequence =>
                op' = "generate_new_deal" /\ bidding_sequence' = <<>>) ]_vars

C2_Witness ==
    /\ op = "bid"
    /\ opening_bids # {}
    /\ PassOutTerminal(bidding_sequence)
    /\ Len(bidding_sequence) > 4
    /\ ret.call = "none"
    /\ ret.err = "none"

\* The 0-based positions up to index at which the side that made the call at
\* index called: index, index - 2, index - 4, ...
SidePositions(index) == {i \in 0..index : (index - i) % 2 = 0}

\* The earliest position at which that side called in the given suit.
FirstInSuit(s, index, suit) ==
    LET named == {i \in SidePositions(index) :
                    ~IsPassAt(s, i) /\ SuitOf(s[i + 1]) = suit}
    IN CHOOSE i \in named : \A j \in named : i <= j

\* The seat letter that ends a contract string.
DeclarerLetter(contract) == contract[Len(contract)]

\* C3: for a passed-out auction whose call before the three final Passes is
\* a bid, the declarer named by get_contract is the member of the bidding
\* side who called the contract's denomination earliest.
C3_FirstNamerDeclares ==
    (/\ op = "get_contract"
     /\ PassOutTerminal(CallSeq)
     /\ ~IsPassAt(CallSeq, Len(CallSeq) - 4))
    => LET index == Len(CallSeq) - 4
           first == FirstInSuit(CallSeq, index, SuitOf(CallSeq[index + 1]))
       IN /\ ret.err = "none"
          /\ DeclarerLetter(ret.str) = player_map(_bidder(board_number, first))

\* C4: when exactly one earlier call of the bidding side has the final bid's
\* denomination and that side's other earlier calls are bids in other
\* denominations, the contract is the final bid's upper-cased value followed
\* by the seat letter of the player who made that earlier call.
C4_Pre(s) ==
    /\ PassOutTerminal(s)
    /\ ~IsPassAt(s, Len(s) - 4)
    /\ LET index == Len(s) - 4
           earlier == SidePositions(index) \ {index}
       IN /\ \A i \in earlier : ~IsPassAt(s, i)
          /\ Cardinality({i \in earlier :
                            SuitOf(s[i + 1]) = SuitOf(s[index + 1])}) = 1

C4_Earlier(s) ==
    LET index == Len(s) - 4
    IN CHOOSE i \in SidePositions(index) \ {index} :
           SuitOf(s[i + 1]) = SuitOf(s[index + 1])

C4_SingleEarlierNamer ==
    (op = "get_contract" /\ C4_Pre(CallSeq)) =>
        /\ ret.err = "none"
        /\ ret.str = Upper(ValueOf(CallSeq[Len(CallSeq) - 3]))
                       \o <<player_map(_bidder(board_number, C4_Earlier(CallSeq)))>>

C4_Witness ==
    /\ op = "get_contract"
    /\ C4_Pre(arg.seq)
    /\ Len(arg.seq) = 8
    /\ C4_Earlier(arg.seq) = 0
    /\ ret.str = <<"4", "H">> \o <<player_map(_bidder(board_number, 0))>>

\* C5: get_contract on a passed-out auction whose call before the three
\* final Passes is Pass returns "P", with no seat letter, on every board.
C5_PassedOutSentinel ==
    (/\ op = "get_contract"
     /\ PassOutTerminal(CallSeq)
     /\ IsPassAt(CallSeq, Len(CallSeq) - 4))
    => (ret.err = "none" /\ ret.str = <<"P">>)

C5_Witness ==
    /\ op = "get_contract"
    /\ arg.seq = <<_pass, _pass, _pass, _pass>>
    /\ board_number = MaxBoard
    /\ ret.str = <<"P">>

\* C6: get_contract on an auction that is not passed out fails with the
\* assertion error and returns no contract; get_contract never changes the
\* sequence or the board number.
C6_NotTerminalFails ==
    /\ [](op = "get_contract" /\ ~PassOutTerminal(CallSeq) =>
            ret.err = "AssertionError" /\ ret.str = <<>>)
    /\ [][op' = "get_contract" =>
            UNCHANGED <<bidding_sequence, board_number, arg>>]_vars

C6_Witness ==
    /\ op = "get_contract"
    /\ Len(bidding_sequence) >= 4
    /\ ~PassOutTerminal(bidding_sequence)
    /\ ret.err = "AssertionError"

\* The legal-bid rule in the specification's words.
LegalRule(s, root) ==
    IF Len(s) < 2 THEN root
    ELSE IF IsPassAt(s, Len(s) - 2) THEN root
    ELSE ChildrenOf(s[Len(s) - 1])

\* C7: the mapping offered to the user and the mapping the program filters
\* are the root when fewer than two calls were made or the call at position
\* length-2 is Pass, and otherwise that call's children, empty or not.
C7_LegalBids ==
    [][ op' = "bid" =>
          /\ (legal'.user # NotConsulted =>
                legal'.user = LegalRule(bidding_sequence, opening_bids))
          /\ (legal'.program # NotConsulted =>
                legal'.program = LegalRule(bidding_sequence, opening_bids))
          /\ (bidding_sequence' # bidding_sequence /\ ret'.call # _pass =>
                ret'.call \in LegalRule(bidding_sequence, opening_bids))
          /\ (/\ opening_bids # {}
              /\ ~PassOutTerminal(bidding_sequence)
              /\ _bidder(board_number, Len(bidding_sequence)) \in {"North", "South"}
              => legal'.user # NotConsulted \/ legal'.program # NotConsulted) ]_vars

C7_Witness ==
    /\ op = "bid"
    /\ legal.program = {}
    /\ Len(bidding_sequence) >= 3
    /\ ~IsPassAt(bidding_sequence, Len(bidding_sequence) - 3)
    /\ ret.call = _pass

\* C8: the automatic selector returns Pass exactly when no bid of the legal
\* mapping accepts the hand, and otherwise a bid of that mapping that
\* accepts it, whatever the random choice.
C8_ProgramBidAccepted ==
    [][ (op' = "bid" /\ legal'.program # NotConsulted /\ ret'.err = "none") =>
          LET hand == get_hand(deal, _bidder(board_number, Len(bidding_sequence)))
              accepted == {b \in LegalRule(bidding_sequence, opening_bids) :
                             Accept(b, hand)}
          IN /\ (ret'.call = _pass <=> accepted = {})
             /\ (ret'.call # _pass => ret'.call \in accepted) ]_vars

C8_Witness ==
    /\ op = "bid"
    /\ legal.program # NotConsulted
    /\ ret.call \notin {_pass, "none"}
    /\ LET hand == get_hand(deal, _bidder(board_number, Len(bidding_sequence) - 1))
       IN Cardinality({b \in legal.program : Accept(b, hand)}) >= 2

\* C9: generate_new_deal either adds one to the board number, empties the
\* auction and installs the generator's deal, or (the generator failing)
\* changes none of them; the board number never goes down and is changed by
\* nothing else.
C9_NewDealAtomic ==
    [][ /\ (op' = "generate_new_deal" =>
              \/ /\ ret'.err = "none"
                 /\ board_number' = board_number + 1
                 /\ bidding_sequence' = <<>>
                 /\ deal' \in Deals
              \/ /\ ret'.err # "none"
                 /\ UNCHANGED <<board_number, bidding_sequence, deal>>)
        /\ board_number' >= board_number
        /\ (board_number' # board_number =>
              op' = "generate_new_deal" /\ board_number' = board_number + 1)
        /\ (op' = "bid" => board_number' = board_number) ]_vars

C9_Witness ==
    /\ op = "generate_new_deal"
    /\ ret.err = "none"
    /\ board_number = MaxBoard
    /\ bidding_sequence = <<>>

\* C10: vulnerability is defined at every board number, has period 16, and
\* follows the residue table, whose four sets partition 0..15.
VulTable ==
    [v \in Vulnerability |->
        CASE v = "None_" -> {1, 8, 11, 14}
          [] v = "Unfavourable" -> {2, 5, 12, 15}
          [] v = "Favourable" -> {3, 6, 9, 0}
          [] v = "All" -> {4, 7, 10, 13}]

C10_Vulnerability ==
    /\ UNION {VulTable[v] : v \in Vulnerability} = 0..15
    /\ \A v, w \in Vulnerability : v # w => VulTable[v] \cap VulTable[w] = {}
    /\ (op = "vulnerability" =>
          /\ ret.str[1] \in Vulnerability
          /\ ret.str[1] = vulnerability(board_number + 16)
          /\ board_number % 16 \in VulTable[ret.str[1]])

C10_Witness ==
    /\ op = "vulnerability"
    /\ board_number % 16 = 0
    /\ board_number > 16
    /\ ret.str = <<"Favourable">>

\* The seats in clockwise order, and the seat k places on from a seat.
Clockwise == <<"North", "East", "South", "West">>

SeatIndex(p) == CHOOSE i \in 1..4 : Clockwise[i] = p

RECURSIVE Advance(_, _)
Advance(p, k) ==
    IF k = 0 THEN p ELSE Advance(Clockwise[(SeatIndex(p) % 4) + 1], k - 1)

\* The dealer of board n by the residue table 1 N, 2 E, 3 S, 0 W.
DealerOf(n) ==
    CASE n % 4 = 1 -> "North"
      [] n % 4 = 2 -> "East"
      [] n % 4 = 3 -> "South"
      [] n % 4 = 0 -> "West"

Partnership(p) == IF p \in {"North", "South"} THEN "NS" ELSE "EW"

\* C11: the seat on turn after k calls of board n is the dealer of board n
\* moved k places clockwise; the dealer follows the residue table and has
\* period 4; successive positions belong to successive seats, and positions
\* two apart to one partnership.
C11_BidderRotation ==
    /\ (op = "_dealer" =>
          /\ ret.str[1] = DealerOf(board_number)
          /\ ret.str[1] = _dealer(board_number + 4))
    /\ (op = "_bidder" =>
          /\ ret.str[1] = Advance(DealerOf(board_number), arg.n)
          /\ _bidder(board_number, arg.n + 1) = Advance(ret.str[1], 1)
          /\ Partnership(_bidder(board_number, arg.n + 2)) = Partnership(ret.str[1]))

C11_Witness ==
    /\ op = "_bidder"
    /\ board_number = 7
    /\ arg.n = 5
    /\ ret.str = <<"West">>

\* A well-formed contract string, in the specification's words.
ValidContract(c) ==
    /\ Len(c) = 3
    /\ c[1] \in {"1", "2", "3", "4", "5", "6", "7"}
    /\ c[2] \in {"C", "D", "H", "S", "N"}
    /\ c[3] \in {"N", "E", "S", "W"}

\* C12: get_double_dummy_result raises ValueError, without calling the
\* oracle, for every string that is not a level 1..7, a strain and a seat
\* ("8NS", "3XN" and "P" among them), and hands every well-formed string
\* ("3NN" among them) to the oracle.
C12_ValidateThenCall ==
    op = "get_double_dummy_result" =>
        /\ (~ValidContract(arg.seq) => ret.err = "ValueError" /\ ret.num = 0)
        /\ (ValidContract(arg.seq) =>
              ret.err = "none" /\ ret.num > 0 /\ ret.str = arg.seq)
        /\ (arg.seq \in {<<"8", "N", "S">>, <<"3", "X", "N">>, <<"P">>} =>
              ret.err = "ValueError" /\ ret.num = 0)
        /\ (arg.seq = <<"3", "N", "N">> => ret.err = "none" /\ ret.num > 0)

C12_Witness ==
    /\ op = "get_double_dummy_result"
    /\ arg.seq = <<"8", "N", "S">>
    /\ ret.err = "ValueError"
    /\ ret.num = 0

\* C13: a quit while bid() waits for the user's call comes out of bid() and
\* leaves the auction, the board number, the deal and the opening bids as
\* they were before that bid().
C13_QuitLeavesAuction ==
    [][ (op' = "bid" /\ ret'.err = "Quit") =>
          /\ ret'.call = "none"
          /\ UNCHANGED <<bidding_sequence, board_number, deal, opening_bids>> ]_vars

C13_Witness ==
    /\ op = "bid"
    /\ ret.err = "Quit"
    /\ mode = "Automatic"
    /\ Len(bidding_sequence) >= 2
    /\ ~IsPassAt(bidding_sequence, Len(bidding_sequence) - 2)
    /\ Advance(DealerOf(board_number), Len(bidding_sequence)) = "South"

\* C14: in every auction bid() builds, on every board and in both modes, the
\* calls at East's and West's positions are all Pass.
C14_OpponentsPass ==
    \A i \in 0..(Len(bidding_sequence) - 1) :
        Advance(DealerOf(board_number), i) \in {"East", "West"}
            => IsPassAt(bidding_sequence, i)

C14_Witness ==
    /\ op = "bid"
    /\ mode = "Automatic"
    /\ Len(bidding_sequence) >= 6
    /\ Cardinality({i \in 0..(Len(bidding_sequence) - 1) :
                      ~IsPassAt(bidding_sequence, i)}) >= 3

\* C15: a bid() that completes on an auction that is not passed out appends
\* exactly one call, keeps the earlier calls in place, and leaves the board
\* number, the deal and the opening bids alone.
C15_BidAppendsOne ==
    [][ (/\ op' = "bid"
         /\ ret'.err = "none"
         /\ ~PassOutTerminal(bidding_sequence)) =>
          /\ Len(bidding_sequence') = Len(bidding_sequence) + 1
          /\ SubSeq(bidding_sequence', 1, Len(bidding_sequence)) = bidding_sequence
          /\ bidding_sequence'[Len(bidding_sequence')] = ret'.call
          /\ UNCHANGED <<board_number, deal, opening_bids>> ]_vars

C15_Witness ==
    /\ op = "bid"
    /\ ret.err = "none"
    /\ Len(bidding_sequence) >= 5
    /\ ret.call \notin {_pass, "none"}
    /\ bidding_sequence[Len(bidding_sequence)] = ret.call

\* What the automatic selector can return for a hand: a bid of the legal
\* mapping that accepts it, or Pass when there is none.
SelectorResults(s, root, hand) ==
    LET accepted == {b \in LegalRule(s, root) : Accept(b, hand)}
    IN IF accepted = {} THEN {_pass} ELSE accepted

\* C16: with South on turn in Default mode the call bid() appends is Pass or
\* a bid of the legal mapping, and when the mode was switched to Automatic
\* during the prompt it is what the automatic selector returns for South's
\* hand.
C16_UserCallLegal ==
    [][ (/\ op' = "bid"
         /\ ret'.err = "none"
         /\ opening_bids # {}
         /\ ~PassOutTerminal(bidding_sequence)
         /\ Advance(DealerOf(board_number), Len(bidding_sequence)) = "South"
         /\ mode = "Default") =>
          /\ ret'.call \in LegalRule(bidding_sequence, opening_bids) \cup {_pass}
          /\ bidding_sequence' = Append(bidding_sequence, ret'.call)
          /\ (mode' = "Automatic" =>
                ret'.call \in SelectorResults(bidding_sequence, opening_bids,
                                              get_hand(deal, "South"))) ]_vars

\* C17: on every passed-out auction, the shortest included, the declarer
\* scan reads only positions index-2, index-6, ... that are at least 0, and
\* the position whose seat is looked up is index, or index-2 when index-2 was
\* read; no position outside the sequence is touched.
C17_ScanInRange ==
    (/\ op = "get_contract"
     /\ PassOutTerminal(CallSeq)
     /\ ~IsPassAt(CallSeq, Len(CallSeq) - 4))
    => LET index == Len(CallSeq) - 4
       IN /\ ret.reads \subseteq {i \in 0..(index - 2) : (index - 2 - i) % 4 = 0}
          /\ ret.num \in 0..(Len(CallSeq) - 1)
          /\ \/ ret.num = index
             \/ ret.num = index - 2 /\ index - 2 \in ret.reads

C17_Witness ==
    /\ op = "get_contract"
    /\ Len(arg.seq) = 5
    /\ PassOutTerminal(arg.seq)
    /\ ~IsPassAt(arg.seq, 1)
    /\ ret.reads = {}
    /\ ret.num = 1
    /\ ret.err = "none"

\* The position (from 1) of the first of the first n lines that parses to a
\* bridge bid, or 0.
FirstAccepted(lines, n) ==
    LET hits == {i \in 1..n : i <= Len(lines) /\ ParseOf(lines[i]) = "BridgeBid"}
    IN IF hits = {} THEN 0 ELSE CHOOSE i \in hits : \A j \in hits : i <= j

\* C18: with tries = N >= 1, get_validated_input never asks for more than N
\* lines, whatever is typed: it returns the first accepted line, or raises
\* ValueError once N lines were read without one.
C18_BoundedByTries ==
    op = "get_validated_input" =>
        LET f == FirstAccepted(arg.seq, arg.n)
        IN /\ ret.num <= arg.n
           /\ (f > 0 => ret.flag /\ ret.str = <<arg.seq[f]>> /\ ret.num = f)
           /\ (f = 0 /\ Len(arg.seq) >= arg.n => ret.err = "ValueError")

\* The depth of the bid tree, its root bids at depth 1.
SetMax(S) == CHOOSE x \in S : \A y \in S : y <= x

RECURSIVE DepthOf(_)
DepthOf(b) ==
    IF ChildrenOf(b) = {} THEN 1
    ELSE 1 + SetMax({DepthOf(c) : c \in ChildrenOf(b)})

TreeDepth == SetMax({DepthOf(b) : b \in TreeRoot})

IsBid(c) == c # _pass

\* The calls of an auction that are not Pass, in order.
NonPassCalls(s) == SelectSeq(s, IsBid)

\* C19: with bid() called again and again on a board and every input
\* request returning, the auction gets passed out; the bids of an auction
\* form a chain from an opening bid through children, so there are at most
\* D of them and at most 2*D+5 calls, D being the depth of the bid tree.
C19_AuctionEnds ==
    /\ [](LET bids == NonPassCalls(bidding_sequence)
          IN /\ (bids # <<>> => bids[1] \in TreeRoot)
             /\ \A i \in 2..Len(bids) : bids[i] \in ChildrenOf(bids[i - 1])
             /\ Len(bids) <= TreeDepth
             /\ Len(bidding_sequence) <= 2 * TreeDepth + 5)
    /\ <>PassOutTerminal(bidding_sequence)

C19_Witness ==
    /\ PassOutTerminal(bidding_sequence)
    /\ Len(bidding_sequence) = 2 * TreeDepth + 5
    /\ Len(NonPassCalls(bidding_sequence)) = TreeDepth

\* C20: on a pass-out terminal auction built by bid(), get_contract returns
\* "P" exactly when the auction has no bid, and the auction is then four
\* Passes; when a bid was made, the call four from the end is the last bid
\* of the auction, the contract is that bid's display value in upper case
\* followed by the declarer letter, and the letter is N or S.
C20_ContractOfAuction ==
    (op = "get_contract" /\ arg.none /\ PassOutTerminal(bidding_sequence)) =>
        LET s == bidding_sequence
            bids == NonPassCalls(s)
        IN /\ ret.err = "none"
           /\ (ret.str = <<"P">>) <=> (bids = <<>>)
           /\ (bids = <<>> => s = <<_pass, _pass, _pass, _pass>>)
           /\ (bids # <<>> =>
                  /\ At(s, Len(s) - 4) = bids[Len(bids)]
                  /\ \A i \in (Len(s) - 2)..Len(s) : s[i] = _pass
                  /\ \E l \in {"N", "S"} :
                         ret.str = Upper(ValueOf(bids[Len(bids)])) \o <<l>>)

C20_Witness ==
    /\ op = "get_contract"
    /\ arg.none
    /\ PassOutTerminal(bidding_sequence)
    /\ Len(NonPassCalls(bidding_sequence)) = 2
    /\ ret.str = <<"2", "S", "S">>

====
